---- MODULE Spec2Model ----
(***************************************************************************)
(* The Dice Resonance Game of chromatic_glitch/dice.py: calculate_score,   *)
(* DiceGame.play_game and DiceGame._play_round, as a state machine whose   *)
(* steps run from one suspension point (an answer of the input handler, a  *)
(* throw of the dice) to the next.  Die positions are 1-based here and     *)
(* 0-based in the source.                                                  *)
(***************************************************************************)
EXTENDS Integers, Sequences, FiniteSets, TLC

\* ------------------------------------------------------------------ bounds
\* Number of dice in the loadout the rounds are played with.
LoadoutSize == 2
\* Throws of the active pool (_roll_dice calls) allowed in one play_game.
MaxRolls == 2
\* Longest list of values calculate_score is called with on its own.
MaxDice == 6

\* --------------------------------------------------------- program constants
Sides == 6
STRAIGHT_SCORE == 1500
StraightLen == 6
TripleLen == 3
TripleOneScore == 1000
TripleFactor == 100
SingleOneScore == 100
SingleFiveScore == 50
RiverPearlFiveScore == 60
RerollLow == 2
RerollHigh == 3
CrystalBonus == 50
NumRounds == 2

\* a die can also come up 0
FacesFromZero == 0..Sides

Faces == 1..Sides

\* Die classes of dice.py: Die, ObsidianFocusDie, RiverPearlDie.
DieKinds == {"std", "obsidian", "pearl"}

\* ------------------------------------------------------------ sequence helpers
RECURSIVE CountOf(_, _)
\* list.count(v)
CountOf(s, v) ==
  IF s = <<>> THEN 0
  ELSE (IF Head(s) = v THEN 1 ELSE 0) + CountOf(Tail(s), v)

\* nothing is removed
RemovesNothing(s, v, k) == s

RECURSIVE RemoveFirst(_, _, _)
\* the list without its first k occurrences of v (the removal loop of the triples)
RemoveFirst(s, v, k) ==
  IF s = <<>> THEN <<>>
  ELSE IF Head(s) = v /\ k > 0 THEN RemoveFirst(Tail(s), v, k - 1)
  ELSE <<Head(s)>> \o RemoveFirst(Tail(s), v, k)

\* f"Triple {value}s"
TripleDesc(v) ==
  <<"Triple 1s", "Triple 2s", "Triple 3s", "Triple 4s", "Triple 5s", "Triple 6s">>[v]

\* three 1s score like any other triple
TripleScoreFlat(v) == v * TripleFactor

\* TRIPLE_SCORES
TripleScore(v) == IF v = 1 THEN TripleOneScore ELSE v * TripleFactor

\* any(isinstance(d, RiverPearlDie) for d in dice_objects)
IsRiverPearlPresent(kinds) == \E i \in 1..Len(kinds) : kinds[i] = "pearl"

\* the straight is never recognised
NeverStraight(values) == FALSE

\* line 81
IsStraight(values) ==
  /\ Len(values) = StraightLen
  /\ \A v \in Faces : CountOf(values, v) >= 1

RECURSIVE TriplesFrom(_, _)
\* the triples found for the faces v..6, in the order of TRIPLE_SCORES
TriplesFrom(values, v) ==
  IF v > Sides THEN <<>>
  ELSE (IF CountOf(values, v) >= TripleLen
          THEN << [combo |-> <<v, v, v>>, score |-> TripleScore(v),
                   desc |-> TripleDesc(v)] >>
          ELSE <<>>) \o TriplesFrom(values, v + 1)

\* the dice of a triple stay among the remaining dice
TripleDiceRemain(rem, values, v) == rem

RECURSIVE RemainingAfterTriples(_, _, _)
\* temp_remaining_dice after the triple loop has handled the faces v..6
RemainingAfterTriples(rem, values, v) ==
  IF v > Sides THEN rem
  ELSE RemainingAfterTriples(
         IF CountOf(values, v) >= TripleLen THEN RemoveFirst(rem, v, TripleLen) ELSE rem,
         values, v + 1)

\* a loose 5 scores 50 whatever the dice
FiveAlwaysStandard(pearl) == SingleFiveScore

\* score of one loose 5
FiveScore(pearl) == IF pearl THEN RiverPearlFiveScore ELSE SingleFiveScore

\* every remaining die gives a single entry
EveryDieScores(rem, pearl) ==
  [k \in 1..Len(rem) |-> [combo |-> <<rem[k]>>, score |-> SingleFiveScore,
                          desc |-> "Single"]]

RECURSIVE SinglesFrom(_, _)
\* one entry per remaining 1 and 5, in the order of the dice
SinglesFrom(rem, pearl) ==
  IF rem = <<>> THEN <<>>
  ELSE (IF Head(rem) = 1
          THEN << [combo |-> <<1>>, score |-> SingleOneScore, desc |-> "Single 1"] >>
        ELSE IF Head(rem) = 5
          THEN << [combo |-> <<5>>, score |-> FiveScore(pearl),
                   desc |-> IF pearl THEN "Single 5 (River Pearl)" ELSE "Single 5"] >>
        ELSE <<>>) \o SinglesFrom(Tail(rem), pearl)

\* calculate_score(dice_values, dice_objects): the list of scoring combinations
calculate_score(values, kinds) ==
  IF IsStraight(values)
    THEN << [combo |-> <<1, 2, 3, 4, 5, 6>>, score |-> STRAIGHT_SCORE,
             desc |-> "Straight 1-6"] >>
    ELSE TriplesFrom(values, 1)
         \o SinglesFrom(RemainingAfterTriples(values, values, 1),
                        IsRiverPearlPresent(kinds))

\* ------------------------------------------------- messages of the renderer
\* no rejection message was displayed
NoMessage == ""
\* line 237
StopRejectedMessage == "You must set aside at least one scoring die/combo."
\* line 259 (without the value and the combination it names)
SetAsideRejectedMessage == "Error: Could not find index for value"
\* line 303
RerollRejectedMessage == "Invalid reroll choice."
\* line 267
AlreadySetAsideMessage == "Error: One or more dice for this combo already set aside this turn."
\* line 311
NothingSetAsideMessage == "Error: No dice were set aside this roll. Treating as bust."
\* line 225
NoScoringDiceMessage == "No scoring dice available in this roll."
\* line 194, in a statement that is commented out
BustedMessage == "No scoring dice! Busted this round."
\* what the renderer receives on the way to `return 0` (224-225, 310-312)
BustExitMessages == {NoScoringDiceMessage, NothingSetAsideMessage}

\* ------------------------------------------------------------------- state
VARIABLES
  loadout,                   \* player.dice_loadout: the kind of the die in each slot
  start_bonus,               \* getattr(player, 'dice_score_bonus', 0)
  pc,                        \* where play_game / _play_round is suspended
  current_round,             \* self.current_round
  total_score,               \* self.total_score
  round_banked_score,        \* self.round_banked_score
  round_score,               \* _play_round: round_score
  current_roll_dice_objects, \* _play_round: the active pool (loadout slots)
  current_dice_objects,      \* self.current_dice_objects: the dice of the last throw
  current_roll_values,       \* self.current_roll_values
  chosen_indices_this_roll,  \* _play_round: positions set aside in this roll
  current_selection_score,   \* _play_round: points set aside in this roll
  can_reroll_special,        \* self.can_reroll_special
  round_results,             \* history: what each finished round returned, and how
  rolls_done,                \* history: _roll_dice calls of this play_game
  rerolls_this_round,        \* history: special rerolls performed in this round
  set_aside_points,          \* history: points of all set-asides accepted this round
  asked_this_roll,           \* history: get_dice_to_set_aside was called for this roll
  error_message,             \* renderer: the rejection message the last step displayed
  bust_message_displayed,    \* renderer: BustedMessage was displayed in this round
  round_rerolls,             \* history: the special rerolls of each finished round
  rolls_in_a_row,            \* history: throws of the round since the pool was last
                             \* thrown without having shrunk
  dice_values,               \* calculate_score: the argument dice_values
  dice_objects,              \* calculate_score: the argument dice_objects (<<>>: None)
  scores_returned            \* calculate_score: the list `scores` it returned

vars ==
  << loadout, start_bonus, pc, current_round, total_score, round_banked_score,
     round_score, current_roll_dice_objects, current_dice_objects,
     current_roll_values, chosen_indices_this_roll, current_selection_score,
     can_reroll_special, round_results, rolls_done, rerolls_this_round,
     set_aside_points, asked_this_roll, error_message, bust_message_displayed,
     round_rerolls, rolls_in_a_row, dice_values, dice_objects, scores_returned >>

\* the variables of a call of calculate_score on its own
score_vars == << dice_values, dice_objects, scores_returned >>

\* PlayerCharacter.__init__: the starting die in slot 1, standard dice after it
LoadoutOf(starting_die) ==
  [i \in 1..LoadoutSize |-> IF i = 1 THEN starting_die ELSE "std"]

\* The players the game is played by: Kaelen (get_kaelen_data) with no equipment,
\* Lyra (get_lyra_data) with a Resonator Crystal equipped (dice_score_bonus 50)
Players ==
  { [dice_loadout |-> LoadoutOf("obsidian"), dice_score_bonus |-> 0],
    [dice_loadout |-> LoadoutOf("pearl"), dice_score_bonus |-> CrystalBonus] }

\* the first die of the loadout is left out of the pool
AllButFirstDie == [i \in 1..(Len(loadout) - 1) |-> i + 1]

\* list(self.dice_loadout), as slots of the loadout
FullPool == [i \in 1..Len(loadout) |-> i]

\* the kinds of the dice in a list of slots
KindsOf(slots) == [i \in 1..Len(slots) |-> loadout[slots[i]]]

\* DiceGame.__init__, for one of the given players
InitFor(players) ==
  /\ \E player \in players :
       /\ loadout = player.dice_loadout
       /\ start_bonus = player.dice_score_bonus
  /\ pc = "idle"
  /\ current_round = 1
  /\ total_score = 0
  /\ round_banked_score = 0
  /\ round_score = 0
  /\ current_roll_dice_objects = <<>>
  /\ current_dice_objects = <<>>
  /\ current_roll_values = <<>>
  /\ chosen_indices_this_roll = {}
  /\ current_selection_score = 0
  /\ can_reroll_special = TRUE
  /\ round_results = <<>>
  /\ rolls_done = 0
  /\ rerolls_this_round = 0
  /\ set_aside_points = 0
  /\ asked_this_roll = FALSE
  /\ error_message = NoMessage
  /\ bust_message_displayed = FALSE
  /\ round_rerolls = <<>>
  /\ rolls_in_a_row = 0
  /\ dice_values = <<>>
  /\ dice_objects = <<>>
  /\ scores_returned = <<>>

Init == InitFor(Players)

\* ------------------------------------------- what one pass of the inner loop computes
\* range(n), as the positions 1..n
Indices(n) == [i \in 1..n |-> i]

\* available_indices_in_roll, for a given set of set-aside positions
AvailableIndices(values, chosen) ==
  SelectSeq(Indices(Len(values)), LAMBDA i : i \notin chosen)

available_indices_in_roll == AvailableIndices(current_roll_values, chosen_indices_this_roll)

available_values_for_scoring ==
  [k \in 1..Len(available_indices_in_roll) |->
     current_roll_values[available_indices_in_roll[k]]]

available_objects_for_scoring ==
  [k \in 1..Len(available_indices_in_roll) |->
     loadout[current_dice_objects[available_indices_in_roll[k]]]]

current_possible_scores ==
  calculate_score(available_values_for_scoring, available_objects_for_scoring)

\* any(isinstance(d, ObsidianFocusDie) for d in self.dice_loadout)
obsidian_present == \E i \in 1..Len(loadout) : loadout[i] = "obsidian"

\* only the 2 can be re-rolled
RerollFacesLowOnly == {RerollLow}

RerollFaces == {RerollLow, RerollHigh}

rerollable_indices_options ==
  SelectSeq(Indices(Len(current_roll_values)),
            LAMBDA i : /\ i \notin chosen_indices_this_roll
                       /\ current_roll_values[i] \in RerollFaces)

\* the reroll is never on offer
NeverOffersReroll == FALSE

\* the reroll is on offer whatever the dice show
AlwaysOffersReroll == TRUE

can_offer_reroll ==
  obsidian_present /\ can_reroll_special /\ rerollable_indices_options # <<>>

\* the handler is asked whatever the roll shows
AlwaysAsks(scores) == TRUE

\* `if not current_possible_scores` is false: the handler is asked for a dice action
HasScores(scores) == scores # <<>>

RECURSIVE FirstIndexWith(_, _, _)
\* the first position of temp_available_indices showing val_needed (0: none)
FirstIndexWith(temp, values, val_needed) ==
  IF temp = <<>> THEN 0
  ELSE IF values[Head(temp)] = val_needed THEN Head(temp)
  ELSE FirstIndexWith(Tail(temp), values, val_needed)

RECURSIVE MatchCombo(_, _, _, _)
\* the search for one position per value of the combination:
\* possible_to_select and indices_to_add_this_combo
MatchCombo(combo, temp, values, found) ==
  IF combo = <<>> THEN [possible |-> TRUE, indices |-> found]
  ELSE LET idx == FirstIndexWith(temp, values, Head(combo))
       IN IF idx = 0
            THEN [possible |-> FALSE, indices |-> found]
            ELSE MatchCombo(Tail(combo),
                            SelectSeq(temp, LAMBDA x : x # idx),
                            values, found \cup {idx})

\* whatever the search found is set aside
SetAsideAlwaysAccepted(m, combo, chosen) == TRUE

\* the set-aside is accepted
SetAsideAccepted(m, combo, chosen) ==
  /\ m.possible
  /\ Cardinality(m.indices) = Len(combo)
  /\ ~ \E idx \in m.indices : idx \in chosen

\* ---------------------------------------------------------------- play_game
\* a bust of either round resets the total
BustResetsAnyRound(r) == TRUE

\* line 161: a bust resets the total to the starting bonus
BustResets(r) == r = 1

\* the total restarts from the bonus at every round
TotalForgetsEarlierRound(total, banked, r, bonus) ==
  IF banked = 0 /\ BustResets(r) THEN bonus ELSE bonus + banked

\* lines 158-162: self.total_score after a round
TotalAfterRound(total, banked, r, bonus) ==
  IF banked = 0 /\ BustResets(r) THEN bonus ELSE total + banked

\* the loop goes on after a bust
NeverLeavesLoop(banked) == FALSE

\* lines 159-163: the round loop is left
LeavesLoop(banked) == banked = 0

\* a bust keeps the points of the earlier rolls
BustKeepsPoints(score_so_far) == score_so_far

\* line 312: what a bust returns
BustReturn(score_so_far) == 0

\* ----------------------------------------------------------- _play_round
\* line 190: the combinations of the roll as thrown
initial_possible_scores ==
  calculate_score(current_roll_values, KindsOf(current_dice_objects))

\* the entries of a list of combinations
Entries(possible_scores) == {possible_scores[i] : i \in 1..Len(possible_scores)}

\* the action_data a "set_aside" answer can carry: an entry offered now, or one
\* that calculate_score gave for this roll before dice were set aside
SetAsideAnswers == Entries(current_possible_scores) \cup Entries(initial_possible_scores)

\* a "stop" is taken whatever has been set aside
StopNeverRejected(chosen) == FALSE

\* line 236: a "stop" with nothing set aside is rejected
StopRejected(chosen) == chosen = {}

\* the rejection lines 259 / 267 display
SetAsideError(m) == IF m.possible THEN AlreadySetAsideMessage ELSE SetAsideRejectedMessage

\* an answer of get_player_choice spends the privilege, valid or not
PrivilegeSpentByAnyAnswer(valid, privilege) == FALSE

\* lines 291-303: self.can_reroll_special after the answer of get_player_choice
PrivilegeAfterAnswer(valid, privilege) == IF valid THEN FALSE ELSE privilege

\* the privilege is left as the round before left it
PrivilegeCarriedOver(privilege) == privilege

\* line 183: self.can_reroll_special at the start of a round
PrivilegeAtRoundStart(privilege) == TRUE

\* the roll's points replace the round total
RoundScoreRestarts(score_so_far, selection) == selection

\* the points of the roll are dropped with the round total
RoundScoreLost(score_so_far, selection) == 0

\* line 314: round_score after a roll whose selection is over
RoundScoreAfterRoll(score_so_far, selection) == score_so_far + selection

\* the pool stays as it was
SameDiceAgain(pool, chosen) == pool

\* lines 317-320: the dice of the pool whose positions were not set aside
NewDiceAvailable(pool, chosen) ==
  LET kept == SelectSeq(Indices(Len(pool)), LAMBDA i : i \notin chosen)
  IN [k \in 1..Len(kept) |-> pool[kept[k]]]

\* the caller is asked whether to roll again even with no die left
NeverHotDice(new_dice_available_objects) == FALSE

\* line 322: no die of the pool is left, the full loadout is rolled again
HotDice(new_dice_available_objects) == new_dice_available_objects = <<>>

\* ------------------------------------------------------------------ steps
\* _roll_dice on the active pool and the reset of the roll's selection (186-199)
RollDice(pool) ==
  /\ \E values \in [1..Len(pool) -> Faces] : current_roll_values' = values
  /\ current_dice_objects' = pool
  /\ current_roll_dice_objects' = pool
  /\ chosen_indices_this_roll' = {}
  /\ current_selection_score' = 0
  /\ rolls_done' = rolls_done + 1
  /\ asked_this_roll' = FALSE
  /\ error_message' = NoMessage
  /\ pc' = "select"

\* a throw within a round that has begun: made while the game has had fewer than
\* MaxRolls throws
Throw(pool) ==
  /\ rolls_done < MaxRolls
  /\ RollDice(pool)

\* _play_round up to its first roll (181-199)
BeginRound ==
  /\ round_score' = 0
  /\ can_reroll_special' = PrivilegeAtRoundStart(can_reroll_special)
  /\ rerolls_this_round' = 0
  /\ set_aside_points' = 0
  /\ bust_message_displayed' = FALSE
  /\ rolls_in_a_row' = 1
  /\ RollDice(FullPool)

\* play_game up to the first roll of round 1 (146-156)
PlayGame ==
  /\ pc = "idle"
  /\ total_score' = start_bonus
  /\ current_round' = 1
  /\ BeginRound
  /\ UNCHANGED << score_vars, loadout, start_bonus, round_banked_score, round_results,
                  round_rerolls >>

\* _play_round returns: line 156 stores the result (the locals of the round
\* keep the values they had at the return)
ReturnFromRound(result, how) ==
  /\ round_banked_score' = result
  /\ round_results' = Append(round_results, [score |-> result, how |-> how])
  /\ round_rerolls' = Append(round_rerolls, rerolls_this_round)
  /\ pc' = "round_end"
  /\ UNCHANGED << round_score, current_roll_dice_objects, current_dice_objects,
                  current_roll_values, chosen_indices_this_roll,
                  current_selection_score, rolls_done, asked_this_roll,
                  rolls_in_a_row >>

\* the end of the selection loop of a roll (307-332)
EndOfRoll ==
  IF chosen_indices_this_roll = {}
    THEN /\ ReturnFromRound(BustReturn(round_score), "bust")
         /\ error_message' = NothingSetAsideMessage
         /\ bust_message_displayed' =
              (bust_message_displayed \/ BustedMessage \in BustExitMessages)
    ELSE LET new_dice_available_objects ==
               NewDiceAvailable(current_roll_dice_objects, chosen_indices_this_roll)
         IN /\ round_score' = RoundScoreAfterRoll(round_score, current_selection_score)
            /\ UNCHANGED << bust_message_displayed, round_rerolls >>
            /\ IF HotDice(new_dice_available_objects)
                 THEN /\ Throw(FullPool)
                      /\ rolls_in_a_row' = 1
                      /\ UNCHANGED << round_banked_score, round_results >>
                 ELSE /\ current_roll_dice_objects' = new_dice_available_objects
                      /\ pc' = "continue"
                      /\ error_message' = NoMessage
                      /\ UNCHANGED << round_banked_score, round_results, rolls_in_a_row,
                                      current_dice_objects, current_roll_values,
                                      chosen_indices_this_roll, current_selection_score,
                                      rolls_done, asked_this_roll >>

\* no scoring dice left and no reroll to offer: the selection loop is left (222-228)
NoScoreEnd ==
  /\ pc = "select"
  /\ ~ HasScores(current_possible_scores)
  /\ ~ can_offer_reroll
  /\ EndOfRoll
  /\ UNCHANGED << score_vars, loadout, start_bonus, current_round, total_score, can_reroll_special,
                  rerolls_this_round, set_aside_points >>

\* no scoring dice left, a reroll can be offered: the reroll path is forced (217-221)
ForcedReroll ==
  /\ pc = "select"
  /\ ~ HasScores(current_possible_scores)
  /\ can_offer_reroll
  /\ pc' = "reroll_target"
  /\ error_message' = NoMessage
  /\ UNCHANGED << bust_message_displayed, round_rerolls, rolls_in_a_row >>
  /\ UNCHANGED << score_vars, loadout, start_bonus, current_round, total_score, round_banked_score,
                  round_score, current_roll_dice_objects, current_dice_objects,
                  current_roll_values, chosen_indices_this_roll,
                  current_selection_score, can_reroll_special, round_results,
                  rolls_done, rerolls_this_round, set_aside_points,
                  asked_this_roll >>

\* get_dice_to_set_aside answers "stop" (235-239)
AnswerStop ==
  /\ pc = "select"
  /\ HasScores(current_possible_scores)
  /\ IF StopRejected(chosen_indices_this_roll)
       THEN /\ asked_this_roll' = TRUE
            /\ error_message' = StopRejectedMessage
            /\ UNCHANGED << bust_message_displayed, round_rerolls, rolls_in_a_row >>
            /\ UNCHANGED << pc, round_banked_score, round_score,
                            current_roll_dice_objects, current_dice_objects,
                            current_roll_values, chosen_indices_this_roll,
                            current_selection_score, round_results, rolls_done >>
       ELSE EndOfRoll
  /\ UNCHANGED << score_vars, loadout, start_bonus, current_round, total_score, can_reroll_special,
                  rerolls_this_round, set_aside_points >>

\* get_dice_to_set_aside answers "set_aside" with an entry of calculate_score (241-279)
AnswerSetAside ==
  /\ pc = "select"
  /\ LET available == available_indices_in_roll
     IN /\ HasScores(current_possible_scores)
        /\ \E action_data \in SetAsideAnswers :
             LET m == MatchCombo(action_data.combo, available, current_roll_values, {})
             IN IF SetAsideAccepted(m, action_data.combo, chosen_indices_this_roll)
                  THEN /\ chosen_indices_this_roll' =
                            chosen_indices_this_roll \cup m.indices
                       /\ current_selection_score' =
                            current_selection_score + action_data.score
                       /\ set_aside_points' = set_aside_points + action_data.score
                       /\ error_message' = NoMessage
                  ELSE /\ error_message' = SetAsideError(m)
                       /\ UNCHANGED << chosen_indices_this_roll,
                                       current_selection_score, set_aside_points >>
  /\ asked_this_roll' = TRUE
  /\ UNCHANGED << bust_message_displayed, round_rerolls, rolls_in_a_row >>
  /\ UNCHANGED << score_vars, loadout, start_bonus, pc, current_round, total_score,
                  round_banked_score, round_score, current_roll_dice_objects,
                  current_dice_objects, current_roll_values, can_reroll_special,
                  round_results, rolls_done, rerolls_this_round >>

\* get_dice_to_set_aside answers "reroll": the target is asked for next (281-289)
AnswerReroll ==
  /\ pc = "select"
  /\ HasScores(current_possible_scores)
  /\ asked_this_roll' = TRUE
  /\ error_message' = NoMessage
  /\ pc' = "reroll_target"
  /\ UNCHANGED << bust_message_displayed, round_rerolls, rolls_in_a_row >>
  /\ UNCHANGED << score_vars, loadout, start_bonus, current_round, total_score, round_banked_score,
                  round_score, current_roll_dice_objects, current_dice_objects,
                  current_roll_values, chosen_indices_this_roll,
                  current_selection_score, can_reroll_special, round_results,
                  rolls_done, rerolls_this_round, set_aside_points >>

\* get_dice_to_set_aside answers an action type no branch handles (235-303)
AnswerUnknown ==
  /\ pc = "select"
  /\ HasScores(current_possible_scores)
  /\ asked_this_roll' = TRUE
  /\ error_message' = NoMessage
  /\ UNCHANGED << bust_message_displayed, round_rerolls, rolls_in_a_row >>
  /\ UNCHANGED << score_vars, loadout, start_bonus, pc, current_round, total_score,
                  round_banked_score, round_score, current_roll_dice_objects,
                  current_dice_objects, current_roll_values, chosen_indices_this_roll,
                  current_selection_score, can_reroll_special, round_results,
                  rolls_done, rerolls_this_round, set_aside_points >>

\* get_dice_to_set_aside answers "set_aside" without data: action_data["combo"]
\* raises TypeError, which no caller catches (242)
AnswerSetAsideNoData ==
  /\ pc = "select"
  /\ HasScores(current_possible_scores)
  /\ asked_this_roll' = TRUE
  /\ error_message' = NoMessage
  /\ pc' = "crashed"
  /\ UNCHANGED << bust_message_displayed, round_rerolls, rolls_in_a_row >>
  /\ UNCHANGED << score_vars, loadout, start_bonus, current_round, total_score,
                  round_banked_score, round_score, current_roll_dice_objects,
                  current_dice_objects, current_roll_values, chosen_indices_this_roll,
                  current_selection_score, can_reroll_special, round_results,
                  rolls_done, rerolls_this_round, set_aside_points >>

\* whatever get_player_choice answers is rejected
NoChoiceIsValid(reroll_choice_idx, options) == FALSE

\* line 291: the answer of get_player_choice names one of the options
\* (0 stands for None, positions are 1-based)
ValidRerollChoice(reroll_choice_idx, options) ==
  reroll_choice_idx # 0 /\ 1 <= reroll_choice_idx /\ reroll_choice_idx <= Len(options)

\* get_player_choice answers the reroll target (289-303): a valid answer re-rolls
\* the die in place, consumes the privilege and leaves the selection loop
RerollTarget ==
  /\ pc = "reroll_target"
  /\ \E reroll_choice_idx \in 0..(Len(rerollable_indices_options) + 1) :
       IF ValidRerollChoice(reroll_choice_idx, rerollable_indices_options)
         THEN /\ \E new_value \in Faces :
                   LET target_reroll_index_in_roll ==
                         rerollable_indices_options[reroll_choice_idx]
                   IN current_roll_values' =
                        [current_roll_values EXCEPT ![target_reroll_index_in_roll] = new_value]
              /\ can_reroll_special' = PrivilegeAfterAnswer(TRUE, can_reroll_special)
              /\ rerolls_this_round' = rerolls_this_round + 1
              /\ error_message' = NoMessage
              /\ pc' = "restart"
         ELSE /\ can_reroll_special' = PrivilegeAfterAnswer(FALSE, can_reroll_special)
              /\ error_message' = RerollRejectedMessage
              /\ pc' = "select"
              /\ UNCHANGED << current_roll_values, rerolls_this_round >>
  /\ UNCHANGED << bust_message_displayed, round_rerolls, rolls_in_a_row >>
  /\ UNCHANGED << score_vars, loadout, start_bonus, current_round, total_score, round_banked_score,
                  round_score, current_roll_dice_objects, current_dice_objects,
                  chosen_indices_this_roll, current_selection_score, round_results,
                  rolls_done, set_aside_points, asked_this_roll >>

\* trigger_outer_loop_restart: the outer loop starts over with a throw of the
\* active pool (307-308, 186-199)
RestartOuterLoop ==
  /\ pc = "restart"
  /\ Throw(current_roll_dice_objects)
  /\ rolls_in_a_row' = 1
  /\ UNCHANGED << bust_message_displayed, round_rerolls >>
  /\ UNCHANGED << score_vars, loadout, start_bonus, current_round, total_score, round_banked_score,
                  round_score, can_reroll_special, round_results, rerolls_this_round,
                  set_aside_points >>

\* get_dice_reroll_choice answers (328-332)
Continue ==
  /\ pc = "continue"
  /\ \E roll_again \in BOOLEAN :
       IF roll_again
         THEN /\ Throw(current_roll_dice_objects)
              /\ rolls_in_a_row' = rolls_in_a_row + 1
              /\ UNCHANGED << round_banked_score, round_results, round_score,
                              round_rerolls >>
         ELSE /\ ReturnFromRound(round_score, "banked")
              /\ error_message' = NoMessage
  /\ UNCHANGED << score_vars, loadout, start_bonus, current_round, total_score,
                  can_reroll_special, rerolls_this_round, set_aside_points,
                  bust_message_displayed >>

\* play_game after a round has returned (157-169)
AfterRound ==
  /\ pc = "round_end"
  /\ total_score' = TotalAfterRound(total_score, round_banked_score, current_round,
                                    start_bonus)
  /\ pc' = IF LeavesLoop(round_banked_score) THEN "done"
           ELSE IF current_round = 1 THEN "ack"
           ELSE "done"
  /\ error_message' = NoMessage
  /\ UNCHANGED << bust_message_displayed, round_rerolls, rolls_in_a_row >>
  /\ UNCHANGED << score_vars, loadout, start_bonus, current_round, round_banked_score, round_score,
                  current_roll_dice_objects, current_dice_objects, current_roll_values,
                  chosen_indices_this_roll, current_selection_score,
                  can_reroll_special, round_results, rolls_done, rerolls_this_round,
                  set_aside_points, asked_this_roll >>

\* wait_for_acknowledgement returns: round 2 starts (165, 152-156, 181-199)
Acknowledge ==
  /\ pc = "ack"
  /\ current_round' = current_round + 1
  /\ BeginRound
  /\ UNCHANGED << score_vars, loadout, start_bonus, total_score, round_banked_score,
                  round_results, round_rerolls >>

Next ==
  \/ PlayGame
  \/ NoScoreEnd
  \/ ForcedReroll
  \/ AnswerStop
  \/ AnswerSetAside
  \/ AnswerReroll
  \/ AnswerUnknown
  \/ AnswerSetAsideNoData
  \/ RerollTarget
  \/ RestartOuterLoop
  \/ Continue
  \/ AfterRound
  \/ Acknowledge

Spec == Init /\ [][Next]_vars

\* ------------------------------------------- the game with answers that arrive
\* an answer the selection loop accepts: a set-aside that is taken, a stop that ends
\* the selection, a reroll target that is re-rolled (272-277, 239, 291-301)
AcceptedAnswer ==
  \/ AnswerSetAside /\ chosen_indices_this_roll' # chosen_indices_this_roll
  \/ AnswerStop /\ (pc' # "select" \/ rolls_done' # rolls_done)
  \/ RerollTarget /\ pc' = "restart"

\* get_dice_reroll_choice answers no (328-329)
Decline == Continue /\ pc' = "round_end"

\* The calls of the handler return (input() blocks until it has a line), the code
\* between two calls runs; the provider does not repeat rejected answers forever
\* and does not answer yes to every get_dice_reroll_choice.
LiveSpec ==
  /\ Init /\ [][Next]_vars
  /\ WF_vars(PlayGame)
  /\ WF_vars(NoScoreEnd)
  /\ WF_vars(ForcedReroll)
  /\ WF_vars(RestartOuterLoop)
  /\ WF_vars(AfterRound)
  /\ WF_vars(Acknowledge)
  /\ WF_vars(RerollTarget)
  /\ SF_vars(AcceptedAnswer)
  /\ SF_vars(Decline)

\* ------------------------------------------- the game with one die more
\* the players with a loadout of one standard die more, which leaves two dice on
\* the table after the starting die is set aside
MoreDicePlayers ==
  { [player EXCEPT !.dice_loadout = Append(@, "std")] : player \in Players }

MoreDiceInit == InitFor(MoreDicePlayers)

MoreDiceSpec == MoreDiceInit /\ [][Next]_vars

\* ------------------------------------------- calculate_score called on its own
\* the lists of at most MaxDice face values
DiceValueLists == UNION {[1..n -> Faces] : n \in 0..MaxDice}

\* the dice_objects a list of n values comes with: none (None), n standard dice,
\* or standard dice and a River Pearl Die in the first or in the last place
DiceObjectLists(n) ==
  { <<>>,
    [i \in 1..n |-> "std"],
    [i \in 1..n |-> IF i = 1 THEN "pearl" ELSE "std"],
    [i \in 1..n |-> IF i = n THEN "pearl" ELSE "std"] }

\* a call of calculate_score(dice_values, dice_objects) is about to be made
ScoreInit ==
  /\ dice_values \in DiceValueLists
  /\ dice_objects \in DiceObjectLists(Len(dice_values))
  /\ scores_returned = <<>>
  /\ pc = "call"
  /\ loadout = <<>>
  /\ start_bonus = 0
  /\ current_round = 1
  /\ total_score = 0
  /\ round_banked_score = 0
  /\ round_score = 0
  /\ current_roll_dice_objects = <<>>
  /\ current_dice_objects = <<>>
  /\ current_roll_values = <<>>
  /\ chosen_indices_this_roll = {}
  /\ current_selection_score = 0
  /\ can_reroll_special = TRUE
  /\ round_results = <<>>
  /\ rolls_done = 0
  /\ rerolls_this_round = 0
  /\ set_aside_points = 0
  /\ asked_this_roll = FALSE
  /\ error_message = NoMessage
  /\ bust_message_displayed = FALSE
  /\ round_rerolls = <<>>
  /\ rolls_in_a_row = 0

\* calculate_score runs and returns its list (69-127)
CalculateScore ==
  /\ pc = "call"
  /\ scores_returned' = calculate_score(dice_values, dice_objects)
  /\ pc' = "returned"
  /\ UNCHANGED << dice_values, dice_objects, loadout, start_bonus, current_round,
                  total_score, round_banked_score, round_score,
                  current_roll_dice_objects, current_dice_objects, current_roll_values,
                  chosen_indices_this_roll, current_selection_score,
                  can_reroll_special, round_results, rolls_done, rerolls_this_round,
                  set_aside_points, asked_this_roll, error_message,
                  bust_message_displayed, round_rerolls, rolls_in_a_row >>

ScoreNext == CalculateScore

ScoreSpec == ScoreInit /\ [][ScoreNext]_vars

\* ------------------------------------------------------------ properties
LastResult == round_results[Len(round_results)]

\* the round has just returned
RoundReturned == pc = "round_end" /\ Len(round_results) >= 1

\* the game is over with round 1 banked and round 2 bust
Round2BustAfterBank ==
  /\ pc = "done"
  /\ Len(round_results) = 2
  /\ round_results[1].how = "banked" /\ round_results[1].score > 0
  /\ round_results[2].how = "bust" /\ round_results[2].score = 0

\* C1 as stated: when round 1 banks a positive score and round 2 busts, play_game
\* returns the starting bonus alone.
C1_Round2BustReturnsBonus ==
  Round2BustAfterBank => total_score = start_bonus

\* C1 as amended: when round 1 banks a positive score and round 2 busts, play_game
\* returns the starting bonus plus the score banked in round 1.
C1_Round2BustKeepsRound1 ==
  Round2BustAfterBank => total_score = start_bonus + round_results[1].score

C1_Witness ==
  Round2BustAfterBank /\ start_bonus > 0 /\ total_score > start_bonus

\* C2: when round 1 busts (returns 0) no second round is played, play_game is at
\* no prompt of the input handler from then on (it is returning), and it returns
\* the starting bonus.
C2_Round1BustEndsGame ==
  (Len(round_results) >= 1 /\ round_results[1].score = 0)
    => /\ Len(round_results) = 1
       /\ current_round = 1
       /\ pc \in {"round_end", "done"}
       /\ pc = "done" => total_score = start_bonus

C2_Witness ==
  /\ pc = "done"
  /\ Len(round_results) = 1 /\ round_results[1].score = 0
  /\ round_score > 0
  /\ start_bonus > 0 /\ total_score = start_bonus

\* C3: never more than two rounds are played, and when the game ends with both
\* rounds banked the total is the starting bonus plus the two banked scores.
C3_BothBankedTotal ==
  /\ Len(round_results) <= NumRounds
  /\ (/\ pc = "done"
      /\ Len(round_results) = NumRounds
      /\ \A i \in 1..Len(round_results) : round_results[i].how = "banked")
       => /\ current_round = NumRounds
          /\ total_score = start_bonus + round_results[1].score + round_results[2].score

C3_Witness ==
  /\ pc = "done"
  /\ Len(round_results) = NumRounds
  /\ \A i \in 1..Len(round_results) : round_results[i].how = "banked"
  /\ start_bonus > 0
  /\ round_results[1].score # round_results[2].score

\* C4: a round that busts returns 0, whatever round_score had accumulated in the
\* earlier rolls of the round.
C4_BustReturnsZero ==
  /\ \A i \in 1..Len(round_results) :
       round_results[i].how = "bust" => round_results[i].score = 0
  /\ (RoundReturned /\ LastResult.how = "bust") => round_banked_score = 0

C4_Witness ==
  /\ RoundReturned
  /\ LastResult.how = "bust"
  /\ round_score > 0
  /\ round_banked_score = 0

\* the roll just thrown shows no scoring combination and no reroll can be offered
FreshRollWithoutOptions ==
  /\ pc = "select"
  /\ chosen_indices_this_roll = {}
  /\ current_possible_scores = <<>>
  /\ ~ can_offer_reroll

\* C5: when a roll shows no scoring combination and no special reroll is available,
\* get_dice_to_set_aside has not been called for that roll and the next step is
\* the return of 0 from the round, as a bust.
C5_NoScoreNoRerollBusts ==
  [][FreshRollWithoutOptions
       => /\ ~ asked_this_roll
          /\ pc' = "round_end"
          /\ round_banked_score' = 0
          /\ round_results' = Append(round_results, [score |-> 0, how |-> "bust"])
          /\ asked_this_roll' = asked_this_roll
          /\ rolls_done' = rolls_done]_vars

\* a bust of Kaelen's loadout on a roll that shows a 2 or a 3, the reroll being spent
C5_Witness ==
  /\ RoundReturned
  /\ LastResult.how = "bust"
  /\ obsidian_present /\ ~ can_reroll_special
  /\ \E i \in 1..Len(current_roll_values) : current_roll_values[i] \in RerollFaces
  /\ calculate_score(current_roll_values, KindsOf(current_dice_objects)) = <<>>
  /\ ~ asked_this_roll

\* the roll on the table is the first of its round
FirstRollOfRound ==
  /\ pc = "select"
  /\ round_score = 0
  /\ rerolls_this_round = 0
  /\ Len(current_roll_values) = LoadoutSize

\* C6: when the first roll of a round shows no scoring combination the round
\* returns 0 at once and no die is rolled again.
C6_FirstRollNoScoreBusts ==
  [][(FirstRollOfRound /\ chosen_indices_this_roll = {}
        /\ current_possible_scores = <<>>)
       => /\ pc' = "round_end"
          /\ round_banked_score' = 0
          /\ current_roll_values' = current_roll_values
          /\ rolls_done' = rolls_done]_vars

\* C7: a round that is banked returns the sum of the points of all combinations
\* set aside during the round.
C7_BankedIsSumOfSetAsides ==
  (RoundReturned /\ LastResult.how = "banked") => round_banked_score = set_aside_points

\* C8: at most one special reroll is performed in a round.
C8_AtMostOneReroll == rerolls_this_round <= 1

\* a special reroll is performed in this step
RerollPerformed == rerolls_this_round' = rerolls_this_round + 1

\* C9: a special reroll is performed only with an Obsidian Focus Die in the
\* loadout, the privilege unused, and on an available die that shows 2 or 3.
C9_RerollOnlyWhenAllowed ==
  [][RerollPerformed
       => /\ obsidian_present
          /\ can_reroll_special
          /\ rerollable_indices_options # <<>>
          /\ \A i \in 1..Len(current_roll_values) :
               current_roll_values'[i] # current_roll_values[i]
                 => /\ i \notin chosen_indices_this_roll
                    /\ current_roll_values[i] \in RerollFaces]_vars

\* C10: a special reroll changes one die at most, and the step after it resumes the
\* selection on the same roll: no other die is thrown, the set-asides stay.
C10_RerollInPlace ==
  [][/\ RerollPerformed
          => Cardinality({i \in 1..Len(current_roll_values) :
                            current_roll_values'[i] # current_roll_values[i]}) <= 1
     /\ pc = "restart"
          => /\ pc' = "select"
             /\ current_roll_values' = current_roll_values
             /\ chosen_indices_this_roll' = chosen_indices_this_roll
             /\ rolls_done' = rolls_done]_vars

\* the roll shows no scoring combination among its available dice while an
\* Obsidian Focus Die is in the loadout, the privilege is unused and an
\* available die shows 2 or 3
NoScoreButReroll ==
  /\ pc = "select"
  /\ current_possible_scores = <<>>
  /\ obsidian_present
  /\ can_reroll_special
  /\ \E i \in 1..Len(current_roll_values) :
       i \notin chosen_indices_this_roll /\ current_roll_values[i] \in RerollFaces

AllSetAside ==
  /\ pc = "select"
  /\ current_roll_values # <<>>
  /\ chosen_indices_this_roll = 1..Len(current_roll_values)

C13_StopWithNothingSetAsideRejected ==
  [][/\ error_message' = StopRejectedMessage
          => /\ pc = "select" /\ pc' = "select"
             /\ chosen_indices_this_roll = {}
             /\ UNCHANGED << chosen_indices_this_roll, current_selection_score,
                             round_score, current_roll_values, current_dice_objects,
                             current_roll_dice_objects, can_reroll_special,
                             round_banked_score, round_results, rolls_done >>
     /\ (pc = "select" /\ chosen_indices_this_roll = {}
           /\ current_possible_scores # <<>>)
          => /\ pc' \notin {"round_end", "continue", "done"}
             /\ round_results' = round_results
             /\ rolls_done' = rolls_done
             /\ round_score' = round_score]_vars

\* a stop was rejected in the second roll of a round
C13_Witness ==
  /\ error_message = StopRejectedMessage
  /\ pc = "select"
  /\ chosen_indices_this_roll = {}
  /\ current_selection_score = 0
  /\ round_score > 0

\* how often face v is among the values at the positions of a set
ShownAt(positions, values, v) == Cardinality({i \in positions : values[i] = v})

\* how often face v is in a combination
NeededBy(combo, v) == Cardinality({j \in 1..Len(combo) : combo[j] = v})

\* C14: a step of the selection loop sets aside only positions that were still
\* available, exactly one per face value the chosen combination requires, and adds
\* the combination's score; a set-aside whose values cannot be matched displays an
\* error and leaves the set-aside positions and the selection total unchanged, the
\* prompt being repeated; no position is set aside twice in a roll.
C14_SetAsideNeedsAvailableDice ==
  [][/\ error_message' \in {SetAsideRejectedMessage, AlreadySetAsideMessage}
          => /\ pc = "select" /\ pc' = "select"
             /\ UNCHANGED << chosen_indices_this_roll, current_selection_score,
                             round_score, current_roll_values, round_results,
                             rolls_done >>
     /\ (pc = "select" /\ pc' = "select" /\ rolls_done' = rolls_done)
          => LET added == chosen_indices_this_roll' \ chosen_indices_this_roll
             IN /\ chosen_indices_this_roll \subseteq chosen_indices_this_roll'
                /\ chosen_indices_this_roll' \subseteq 1..Len(current_roll_values)
                /\ IF added = {}
                     THEN current_selection_score' = current_selection_score
                     ELSE \E action_data \in SetAsideAnswers :
                            /\ Cardinality(added) = Len(action_data.combo)
                            /\ \A v \in Faces :
                                 ShownAt(added, current_roll_values, v)
                                   = NeededBy(action_data.combo, v)
                            /\ current_selection_score'
                                 = current_selection_score + action_data.score]_vars

\* a combination whose die is already set aside was chosen again and rejected
C14_Witness ==
  /\ error_message = SetAsideRejectedMessage
  /\ pc = "select"
  /\ chosen_indices_this_roll # {}
  /\ current_selection_score > 0
  /\ current_possible_scores # <<>>

\* C15: no answer of the decision-provider, malformed ones included (an unknown
\* action type, a set_aside or reroll without data, a reroll index out of range or
\* None), crashes the round: play_game never ends in an exception.
C15_MalformedAnswerNeverCrashes == pc # "crashed"

\* C16: an invalid reroll target is rejected: the step that displays the rejection
\* changes no die value, leaves the reroll privilege as it was, keeps the roll's
\* set-asides and ends in the selection loop, which prompts again.
C16_InvalidRerollTargetRejected ==
  [][error_message' = RerollRejectedMessage
       => /\ pc = "reroll_target" /\ pc' = "select"
          /\ UNCHANGED << current_roll_values, can_reroll_special,
                          chosen_indices_this_roll, current_selection_score,
                          round_score, rerolls_this_round, round_results,
                          round_banked_score, rolls_done >>]_vars

\* a target was rejected with dice set aside and the privilege still unused
C16_Witness ==
  /\ error_message = RerollRejectedMessage
  /\ pc = "select"
  /\ obsidian_present /\ can_reroll_special
  /\ rerolls_this_round = 0
  /\ chosen_indices_this_roll # {}
  /\ rerollable_indices_options # <<>>

\* ----------------------------------------------- properties of calculate_score
\* how often face v is among dice_values
Occurrences(v) == Cardinality({i \in 1..Len(dice_values) : dice_values[i] = v})

\* how many entries of the returned list have the given combination
EntriesWith(combo) ==
  Cardinality({k \in 1..Len(scores_returned) : scores_returned[k].combo = combo})

\* the call has returned
Returned == pc = "returned"

\* the argument is six values showing each face once
StraightInput ==
  /\ Len(dice_values) = StraightLen
  /\ \A v \in Faces : Occurrences(v) = 1

\* the 1s or 5s (face v) that no triple consumes
LooseCount(v) == IF Occurrences(v) >= TripleLen THEN Occurrences(v) - TripleLen
                 ELSE Occurrences(v)

\* C17: on six values showing each of 1..6 once calculate_score returns the one
\* combination ((1,2,3,4,5,6), 1500, "Straight 1-6") and nothing else; on any other
\* input it returns no straight.
C17_StraightIsExclusive ==
  Returned
    => IF StraightInput
         THEN scores_returned = << [combo |-> <<1, 2, 3, 4, 5, 6>>,
                                    score |-> STRAIGHT_SCORE,
                                    desc |-> "Straight 1-6"] >>
         ELSE \A k \in 1..Len(scores_returned) :
                /\ scores_returned[k].combo # <<1, 2, 3, 4, 5, 6>>
                /\ scores_returned[k].desc # "Straight 1-6"
                /\ Len(scores_returned[k].combo) < StraightLen

\* the six faces in an order that is not ascending, a River Pearl Die among the dice
C17_Witness ==
  /\ Returned
  /\ StraightInput
  /\ dice_values[1] = 5
  /\ dice_objects # <<>> /\ dice_objects[1] = "pearl"
  /\ Len(scores_returned) = 1
  /\ scores_returned[1].score = STRAIGHT_SCORE

\* C18: on a non-straight input of 1..6 values calculate_score returns, for each
\* face with a count of 3 or more, exactly one triple (v,v,v), worth 1000 for v = 1
\* and v*100 otherwise, and no triple for a face with a smaller count; six dice of
\* one face give one triple.
C18_OneTriplePerFace ==
  (Returned /\ ~ StraightInput /\ Len(dice_values) >= 1)
    => /\ \A v \in Faces :
            EntriesWith(<<v, v, v>>) = IF Occurrences(v) >= 3 THEN 1 ELSE 0
       /\ \A k \in 1..Len(scores_returned) :
            LET entry == scores_returned[k]
            IN Len(entry.combo) = 3
                 => /\ entry.combo[2] = entry.combo[1] /\ entry.combo[3] = entry.combo[1]
                    /\ entry.score = IF entry.combo[1] = 1 THEN 1000
                                     ELSE entry.combo[1] * 100

\* six 1s: one triple of 1s worth 1000
C18_Witness ==
  /\ Returned
  /\ Len(dice_values) = 6
  /\ Occurrences(1) = 6
  /\ EntriesWith(<<1, 1, 1>>) = 1
  /\ scores_returned[1].score = 1000

\* C19: on a non-straight input calculate_score returns one single-die entry per 1
\* and per 5 that no triple consumes (count - 3 of them when the count is 3 or
\* more), each 1 worth 100; every entry is a triple or a single 1 or 5.
C19_OneSinglePerLooseDie ==
  (Returned /\ ~ StraightInput)
    => /\ EntriesWith(<<1>>) = LooseCount(1)
       /\ EntriesWith(<<5>>) = LooseCount(5)
       /\ \A k \in 1..Len(scores_returned) :
            LET entry == scores_returned[k]
            IN /\ Len(entry.combo) \in {1, 3}
               /\ Len(entry.combo) = 1 => entry.combo[1] \in {1, 5}
               /\ entry.combo = <<1>> => entry.score = 100 /\ entry.desc = "Single 1"

\* four 1s and two 5s: a triple, one single 1 and two single 5s
C19_Witness ==
  /\ Returned
  /\ Occurrences(1) = 4 /\ Occurrences(5) = 2
  /\ EntriesWith(<<1, 1, 1>>) = 1
  /\ EntriesWith(<<1>>) = 1
  /\ EntriesWith(<<5>>) = 2
  /\ Len(scores_returned) = 4

\* C20: with a River Pearl Die among dice_objects every loose 5 is a single worth
\* 60 and none is worth 50; without one every loose 5 is worth 50; a triple of 5s
\* is worth 500 either way and its three 5s give no single-5 entry.
C20_RiverPearlFive ==
  (Returned /\ ~ StraightInput)
    => LET pearl == \E i \in 1..Len(dice_objects) : dice_objects[i] = "pearl"
       IN /\ \A k \in 1..Len(scores_returned) :
               LET entry == scores_returned[k]
               IN /\ entry.combo = <<5>>
                       => /\ entry.score = IF pearl THEN 60 ELSE 50
                          /\ entry.desc = IF pearl THEN "Single 5 (River Pearl)"
                                          ELSE "Single 5"
                  /\ entry.combo = <<5, 5, 5>> => entry.score = 500
          /\ EntriesWith(<<5>>) = LooseCount(5)
          /\ Occurrences(5) = 3 => EntriesWith(<<5>>) = 0

\* four 5s with the River Pearl Die in the last place: a triple worth 500 and one
\* single worth 60
C20_Witness ==
  /\ Returned
  /\ Occurrences(5) = 4
  /\ Len(dice_objects) = Len(dice_values)
  /\ dice_objects[Len(dice_objects)] = "pearl" /\ dice_objects[1] = "std"
  /\ \E k \in 1..Len(scores_returned) :
       scores_returned[k].combo = <<5, 5, 5>> /\ scores_returned[k].score = 500
  /\ \E k \in 1..Len(scores_returned) :
       scores_returned[k].combo = <<5>> /\ scores_returned[k].score = 60

\* how often face v is required by all returned combinations together
RequiredByAll(v) ==
  Cardinality({kj \in (1..Len(scores_returned)) \X (1..StraightLen) :
                 /\ kj[2] <= Len(scores_returned[kj[1]].combo)
                 /\ scores_returned[kj[1]].combo[kj[2]] = v})

\* C21: calculate_score returns the empty list exactly when its input has no 1, no
\* 5, no face three times and is not a straight; a 2, 3, 4 or 6 is in a returned
\* combination only as part of a triple of its face or of the straight.
C21_NothingElseScores ==
  Returned
    => /\ (scores_returned = <<>>)
            <=> (/\ Occurrences(1) = 0
                 /\ Occurrences(5) = 0
                 /\ \A v \in 1..6 : Occurrences(v) < 3
                 /\ ~ StraightInput)
       /\ \A k \in 1..Len(scores_returned) :
            LET combo == scores_returned[k].combo
            IN \A j \in 1..Len(combo) :
                 combo[j] \in {2, 3, 4, 6}
                   => \/ combo = <<combo[j], combo[j], combo[j]>>
                      \/ combo = <<1, 2, 3, 4, 5, 6>>

\* six dice showing 2, 3, 4 and 6 only, two of them twice: nothing is returned
C21_Witness ==
  /\ Returned
  /\ Len(dice_values) = 6
  /\ Occurrences(2) = 2 /\ Occurrences(4) = 2
  /\ Occurrences(3) = 1 /\ Occurrences(6) = 1
  /\ scores_returned = <<>>

\* C22: on a non-empty input the combinations calculate_score returns require,
\* taken together, no face more often than the input shows it.
C22_NeverOverClaims ==
  (Returned /\ Len(dice_values) >= 1)
    => \A v \in 1..6 : RequiredByAll(v) <= Occurrences(v)

\* four 1s and two 5s: the triple and the three singles claim all six dice
C22_Witness ==
  /\ Returned
  /\ Len(dice_values) = 6
  /\ Occurrences(1) = 4 /\ Occurrences(5) = 2
  /\ RequiredByAll(1) = 4 /\ RequiredByAll(5) = 2

\* C23: when a round has returned as a bust, the renderer has received "No scoring
\* dice! Busted this round." during that round.
C23_BustDisplaysBustedMessage ==
  (RoundReturned /\ LastResult.how = "bust") => bust_message_displayed

\* C24: within a roll the set of set-aside positions only grows; it shrinks only
\* in a throw of the pool for the next roll, after the selection of the roll was
\* ended, and never through a special reroll.
C24_SetAsideOnlyGrows ==
  [][\/ chosen_indices_this_roll \subseteq chosen_indices_this_roll'
     \/ (rolls_done' = rolls_done + 1 /\ pc # "restart")]_vars

\* C25: the combinations set aside in a roll before a special reroll stay set
\* aside after it with their points, and a round that is banked returns at least
\* the points of every combination set aside in it.
C25_RerollKeepsSetAsidePoints ==
  [][/\ pc = "restart"
          => /\ chosen_indices_this_roll \subseteq chosen_indices_this_roll'
             /\ current_selection_score' >= current_selection_score
     /\ (round_results' # round_results
           /\ round_results'[Len(round_results')].how = "banked")
          => round_banked_score' >= set_aside_points]_vars

\* C26: when the selection of a roll ends with dice left, the pool becomes the dice
\* of the pool that were not set aside, in their order; a yes to
\* get_dice_reroll_choice throws exactly that pool and keeps the round total, a no
\* returns the round total as the banked score.
C26_ContinueRollsRemainingDice ==
  [][/\ (pc = "select" /\ pc' = "continue")
          => LET n == Len(current_roll_dice_objects)
                 k == Cardinality(chosen_indices_this_roll)
             IN /\ k >= 1 /\ k < n
                /\ Len(current_roll_dice_objects') = n - k
                /\ \A i \in 1..n :
                     i \notin chosen_indices_this_roll
                       => current_roll_dice_objects'[
                            Cardinality({x \in 1..i : x \notin chosen_indices_this_roll})]
                          = current_roll_dice_objects[i]
     /\ pc = "continue"
          => \/ /\ pc' = "select"
                /\ current_dice_objects' = current_roll_dice_objects
                /\ current_roll_dice_objects' = current_roll_dice_objects
                /\ Len(current_roll_values') = Len(current_roll_dice_objects)
                /\ chosen_indices_this_roll' = {}
                /\ round_score' = round_score
                /\ round_results' = round_results
                /\ rolls_done' = rolls_done + 1
             \/ /\ pc' = "round_end"
                /\ round_banked_score' = round_score
                /\ round_results'
                     = Append(round_results, [score |-> round_score, how |-> "banked"])
                /\ rolls_done' = rolls_done]_vars

\* the second roll of a round, thrown with the one die that was not set aside
C26_Witness ==
  /\ pc = "select"
  /\ round_score > 0
  /\ Len(current_roll_values) = LoadoutSize - 1
  /\ current_dice_objects = Tail(FullPool)
  /\ current_roll_dice_objects = current_dice_objects
  /\ chosen_indices_this_roll = {}

\* C27: the roll has one value per die that was rolled, within a roll that is the
\* active pool, which is not empty, and every value is one of 1..6.
C27_OneValuePerDie ==
  /\ Len(current_roll_values) = Len(current_dice_objects)
  /\ \A i \in 1..Len(current_roll_values) : current_roll_values[i] \in 1..6
  /\ pc \in {"select", "reroll_target", "restart"}
       => /\ Len(current_roll_values) = Len(current_roll_dice_objects)
          /\ Len(current_roll_values) >= 1

\* a die of a shrunk pool has been re-rolled in place
C27_Witness ==
  /\ pc = "restart"
  /\ Len(current_roll_values) = LoadoutSize - 1
  /\ Len(current_roll_dice_objects) = LoadoutSize - 1

\* C28: within a round the round total never decreases, and a round returns its
\* round total unless it busts, when it returns 0.
C28_RoundTotalNeverDecreases ==
  [][/\ (pc # "idle" /\ current_round' = current_round) => round_score' >= round_score
     /\ round_results' # round_results
          => \/ /\ round_results'[Len(round_results')].how = "banked"
                /\ round_banked_score' = round_score
             \/ /\ round_results'[Len(round_results')].how = "bust"
                /\ round_banked_score' = 0]_vars

\* a round banked after two rolls that both scored
C28_Witness ==
  /\ RoundReturned
  /\ LastResult.how = "banked"
  /\ current_selection_score > 0
  /\ round_banked_score > current_selection_score
  /\ round_banked_score = round_score

\* the available dice of the roll that show 2 or 3
EligibleForReroll ==
  {i \in 1..Len(current_roll_values) :
     i \notin chosen_indices_this_roll /\ current_roll_values[i] \in {2, 3}}

C30_PrivilegePerRound ==
  pc \in {"select", "reroll_target", "restart", "continue"}
    => (can_reroll_special <=> rerolls_this_round = 0)

\* round 2 offers the reroll after a round 1 in which it was used
C30_Witness ==
  /\ current_round = 2
  /\ pc = "select"
  /\ Len(round_rerolls) = 1 /\ round_rerolls[1] >= 1
  /\ rerolls_this_round = 0
  /\ can_reroll_special
  /\ can_offer_reroll

\* C31: a step of the selection loop that sets dice aside credits one of the
\* combinations calculate_score reported for the dice available at the prompt: the
\* dice it sets aside show that combination's faces and the points it adds are that
\* combination's score.
C31_OnlyOfferedCombinationsCredited ==
  [][(pc = "select" /\ chosen_indices_this_roll' # chosen_indices_this_roll
        /\ rolls_done' = rolls_done)
       => \E k \in 1..Len(current_possible_scores) :
            LET offered == current_possible_scores[k]
                added == chosen_indices_this_roll' \ chosen_indices_this_roll
            IN /\ current_selection_score' = current_selection_score + offered.score
               /\ Cardinality(added) = Len(offered.combo)
               /\ \A v \in 1..6 :
                    ShownAt(added, current_roll_values, v) = NeededBy(offered.combo, v)]_vars

\* a River Pearl die is among the dice of the roll that are not set aside
PearlAvailable ==
  \E i \in 1..Len(current_roll_values) :
    /\ i \notin chosen_indices_this_roll
    /\ loadout[current_dice_objects[i]] = "pearl"

\* C32: in the selection of a roll a loose 5 is offered at 60 when a River Pearl die
\* is among the dice of the roll that are not set aside, and at 50 otherwise; a
\* River Pearl die that is set aside or out of the pool is among the available dice
\* again in the same round only through hot dice, the throw that follows the
\* set-aside of every die of the roll.
C32_PearlFiveUntilHotDice ==
  /\ [](pc = "select"
          => \A k \in 1..Len(current_possible_scores) :
               current_possible_scores[k].combo = <<5>>
                 => current_possible_scores[k].score = IF PearlAvailable THEN 60 ELSE 50)
  /\ [][(/\ pc \in {"select", "reroll_target", "restart", "continue"}
         /\ ~ PearlAvailable
         /\ current_round' = current_round
         /\ pc' = "select"
         /\ PearlAvailable')
          => chosen_indices_this_roll = 1..Len(current_roll_values)]_vars

\* dice are set aside, the others give no combination and no reroll can be offered
NothingMoreToSelect ==
  /\ pc = "select"
  /\ chosen_indices_this_roll # {}
  /\ current_possible_scores = <<>>
  /\ ~ (/\ \E slot \in 1..Len(loadout) : loadout[slot] = "obsidian"
        /\ can_reroll_special
        /\ EligibleForReroll # {})

\* C33: when dice are set aside in the roll, the remaining dice offer no combination
\* and no special reroll can be offered, the next step ends the selection without a
\* prompt for a dice action: the points of the roll are added to the round total
\* and the round goes on (hot dice or the question whether to roll again), it does
\* not return.
C33_NoMoreScoresEndsSelection ==
  [][NothingMoreToSelect
       => /\ round_score' = round_score + current_selection_score
          /\ round_results' = round_results
          /\ \/ pc' = "continue" /\ rolls_done' = rolls_done
             \/ pc' = "select" /\ rolls_done' = rolls_done + 1
          /\ asked_this_roll' => asked_this_roll]_vars

\* the selection of a roll has ended that way with dice left
C33_Witness ==
  /\ pc = "continue"
  /\ chosen_indices_this_roll # {}
  /\ current_possible_scores = <<>>
  /\ current_selection_score > 0
  /\ round_score >= current_selection_score
  /\ Len(current_roll_dice_objects) >= 1

\* C34: a round returns 0 exactly when it busts, a banked round returns a positive
\* score; play_game goes on to the acknowledgement only after a banked round and
\* ends after round 1 only on a bust.
C34_ZeroExactlyOnBust ==
  /\ \A k \in 1..Len(round_results) :
       /\ round_results[k].score = 0 <=> round_results[k].how = "bust"
       /\ round_results[k].how = "banked" => round_results[k].score > 0
  /\ pc = "ack" => LastResult.how = "banked"
  /\ (pc = "done" /\ Len(round_results) = 1) => round_results[1].how = "bust"

\* round 1 was banked with the smallest score there is
C34_Witness ==
  /\ pc = "ack"
  /\ LastResult.how = "banked"
  /\ round_banked_score = 50
  /\ LastResult.score = round_banked_score

\* C35: every throw of a round rolls at least one die and at most the loadout; the
\* first throw of a round and the throw after every die of a roll was set aside
\* (hot dice) roll the whole loadout; the throw after a yes to get_dice_reroll_choice
\* rolls fewer dice than the throw before it; so the throws that follow one another
\* without hot dice or a special reroll in between are at most as many as the
\* loadout has dice.
C35_PoolShrinksBetweenRolls ==
  [][rolls_done' = rolls_done + 1
       => /\ Len(current_dice_objects') >= 1
          /\ Len(current_dice_objects') <= Len(loadout)
          /\ current_dice_objects' = current_roll_dice_objects'
          /\ (pc \in {"idle", "ack"}
                \/ chosen_indices_this_roll = 1..Len(current_roll_values))
               => Len(current_dice_objects') = Len(loadout)
          /\ pc = "continue"
               => Len(current_dice_objects') < Len(current_dice_objects)
          /\ rolls_in_a_row' <= Len(loadout)]_vars

\* as many throws in a row as the loadout has dice, the last of a single die
C35_Witness ==
  /\ pc = "select"
  /\ rolls_in_a_row = Len(loadout)
  /\ Len(current_dice_objects) = 1
  /\ rerolls_this_round = 0

\* a throw is due and the game has had its MaxRolls throws
OutOfThrows ==
  /\ rolls_done >= MaxRolls
  /\ \/ pc = "restart"
     \/ pc = "select" /\ chosen_indices_this_roll = 1..Len(current_roll_values)

====
